---- MODULE Spec2Model ----
(***************************************************************************)
(* PR-Agent-Reviewer: the review pipeline of src/main.ts (PRValidator).    *)
(*                                                                         *)
(* src/main.ts holds two variants of the class: the minimal one (result    *)
(* {approved, issues}, lines 1-259) and the extended one (result           *)
(* {approved, score, issues, suggestions, summary} plus a commit status,   *)
(* lines 262-556).  The variable `variant` selects which one runs.         *)
(*                                                                         *)
(* Strings of the program are sequences of one-character strings, so that  *)
(* substring search, lower-casing, the regular expressions and the JSON    *)
(* parser are computed character by character as the code computes them.   *)
(* JavaScript values are tagged records [t |-> tag, v |-> payload].        *)
(***************************************************************************)
EXTENDS Integers, Sequences, FiniteSets, TLC

VARIABLES
    variant,          \* "minimal" | "extended": which PRValidator of main.ts
    eventName,        \* github.context.eventName
    pullRequest,      \* github.context.payload.pull_request (or NoPullRequest)
    excludeInput,     \* core.getInput('EXCLUDE_PATTERNS')
    excludePatterns,  \* this.excludePatterns
    pc,               \* position of run()
    listed,           \* data returned by pulls.listFiles
    files,            \* validFiles returned by getPRFiles
    listCalls,        \* number of pulls.listFiles requests
    calls,            \* chat.completions.create requests, in order, each with
                      \* whether it threw
    response,         \* `response` of analyzePR
    parseCalls,       \* number of parseAnalysisResult invocations
    analysis,         \* argument of parseAnalysisResult
    result,           \* the PRAnalysisResult (or Undefined)
    comments,         \* bodies passed to issues.createComment, in order
    statuses,         \* states passed to repos.createCommitStatus, in order
    failed,           \* messages passed to core.setFailed, in order
    log,              \* core.info / core.warning / core.error, in order
    obj,              \* round-trip input: the object serialised into the text
    prefix,           \* round-trip input: prose before the object
    suffix,           \* round-trip input: prose after the object
    refiltered        \* the selector applied to its own output

vars == <<variant, eventName, pullRequest, excludeInput, excludePatterns, pc,
          listed, files, listCalls, calls, response, parseCalls, analysis,
          result, comments, statuses, failed, log, obj, prefix, suffix, refiltered>>

(***************************************************************************)
(* Bounds of the model.                                                    *)
(***************************************************************************)
MaxFiles == 2
MaxChunks == 3
MaxProse == 2

(***************************************************************************)
(* Strings.                                                                *)
(***************************************************************************)
UpperChars == <<"A","B","C","D","E","F","G","H","I","J","K","L","M",
                "N","O","P","Q","R","S","T","U","V","W","X","Y","Z">>
LowerChars == <<"a","b","c","d","e","f","g","h","i","j","k","l","m",
                "n","o","p","q","r","s","t","u","v","w","x","y","z">>
DigitChars == <<"0","1","2","3","4","5","6","7","8","9">>

IsDigit(c) == \E d \in 1..10 : DigitChars[d] = c
DigitValue(c) == (CHOOSE d \in 1..10 : DigitChars[d] = c) - 1

MinOf(S) == CHOOSE m \in S : \A k \in S : m <= k
MaxOf(S) == CHOOSE m \in S : \A k \in S : m >= k

\* String.prototype.toLowerCase
LowerChar(c) ==
    IF \E k \in 1..26 : UpperChars[k] = c
    THEN LowerChars[CHOOSE k \in 1..26 : UpperChars[k] = c]
    ELSE c
ToLowerCase(s) == [k \in 1..Len(s) |-> LowerChar(s[k])]

\* String.prototype.includes: scan for the first offset where sub occurs
RECURSIVE IndexOfFrom(_, _, _)
IndexOfFrom(s, sub, k) ==
    IF k + Len(sub) - 1 > Len(s) THEN 0
    ELSE IF SubSeq(s, k, k + Len(sub) - 1) = sub THEN k
    ELSE IndexOfFrom(s, sub, k + 1)
Includes(s, sub) == IndexOfFrom(s, sub, 1) # 0

\* String.prototype.trim (the only white space of the model is the blank)
RECURSIVE TrimStart(_)
TrimStart(s) == IF s # <<>> /\ Head(s) = " " THEN TrimStart(Tail(s)) ELSE s
RECURSIVE TrimEnd(_)
TrimEnd(s) ==
    IF s # <<>> /\ s[Len(s)] = " " THEN TrimEnd(SubSeq(s, 1, Len(s) - 1)) ELSE s
Trim(s) == TrimEnd(TrimStart(s))

\* String.prototype.split(sep) for a one-character separator
RECURSIVE SplitAcc(_, _, _, _)
SplitAcc(s, sep, k, cur) ==
    IF k > Len(s) THEN <<cur>>
    ELSE IF s[k] = sep THEN <<cur>> \o SplitAcc(s, sep, k + 1, <<>>)
    ELSE SplitAcc(s, sep, k + 1, Append(cur, s[k]))
Split(s, sep) == SplitAcc(s, sep, 1, <<>>)

(***************************************************************************)
(* JavaScript values.                                                      *)
(***************************************************************************)
Undefined == [t |-> "undefined", v |-> 0]
Null == [t |-> "null", v |-> 0]
NaN == [t |-> "nan", v |-> 0]
Bool(b) == [t |-> "bool", v |-> b]
Num(n) == [t |-> "num", v |-> n]
Str(s) == [t |-> "str", v |-> s]
Arr(vs) == [t |-> "arr", v |-> vs]
\* an object: its properties <<key, value>> in insertion order, keys unique
Obj(ps) == [t |-> "obj", v |-> ps]

Keys(o) == {o.v[k][1] : k \in 1..Len(o.v)}
HasKey(o, key) == key \in Keys(o)
\* property read o.key
Get(o, key) ==
    IF HasKey(o, key)
    THEN o.v[CHOOSE k \in 1..Len(o.v) : o.v[k][1] = key][2]
    ELSE Undefined
\* property write o[key] = val
SetProp(ps, key, val) ==
    IF \E k \in 1..Len(ps) : ps[k][1] = key
    THEN [k \in 1..Len(ps) |-> IF ps[k][1] = key THEN <<key, val>> ELSE ps[k]]
    ELSE Append(ps, <<key, val>>)

\* ToBoolean, as used by `cond ? a : b`, `if (cond)` and `!cond`
Truthy(x) ==
    CASE x.t = "bool" -> x.v
      [] x.t = "num" -> x.v # 0
      [] x.t = "str" -> x.v # <<>>
      [] x.t \in {"arr", "obj"} -> TRUE
      [] OTHER -> FALSE

\* the property names the program reads and writes
K_approved == <<"a","p","p","r","o","v","e","d">>
K_issues == <<"i","s","s","u","e","s">>
K_score == <<"s","c","o","r","e">>
K_suggestions == <<"s","u","g","g","e","s","t","i","o","n","s">>
K_summary == <<"s","u","m","m","a","r","y">>
K_length == <<"l","e","n","g","t","h">>

(***************************************************************************)
(* JSON.parse and JSON.stringify, over the characters of the model: the    *)
(* blank, the letters, the digits and the punctuation { } [ ] : , " and    *)
(* the characters of file names.  (No text of the model holds a backslash, *)
(* a sign, a fraction or a control character.)                             *)
(***************************************************************************)
W_true == <<"t","r","u","e">>
W_false == <<"f","a","l","s","e">>
W_null == <<"n","u","l","l">>

ParseFail == [ok |-> FALSE, val |-> Undefined, pos |-> 0]
ParseOk(val, pos) == [ok |-> TRUE, val |-> val, pos |-> pos]

\* the first position at or after k that holds no white space
RECURSIVE SkipWs(_, _)
SkipWs(s, k) == IF k <= Len(s) /\ s[k] = " " THEN SkipWs(s, k + 1) ELSE k

\* the first position at or after k that holds no digit
RECURSIVE SkipDigits(_, _)
SkipDigits(s, k) == IF k <= Len(s) /\ IsDigit(s[k]) THEN SkipDigits(s, k + 1) ELSE k

RECURSIVE DigitsValue(_)
DigitsValue(ds) ==
    IF ds = <<>> THEN 0
    ELSE 10 * DigitsValue(SubSeq(ds, 1, Len(ds) - 1)) + DigitValue(ds[Len(ds)])

RECURSIVE Pow10(_)
Pow10(n) == IF n = 0 THEN 1 ELSE 10 * Pow10(n - 1)

\* a string literal opening at k: up to the next double quote
ParseString(s, k) ==
    LET closes == {j \in (k + 1)..Len(s) : s[j] = "\""}
    IN IF closes = {} THEN ParseFail
       ELSE LET j == MinOf(closes)
            IN ParseOk(Str(SubSeq(s, k + 1, j - 1)), j + 1)

\* a number opening at the digit at k: 0 or a run of digits without a
\* leading 0, then an optional exponent
ParseNumber(s, k) ==
    LET intEnd == IF s[k] = "0" THEN k + 1 ELSE SkipDigits(s, k)
        int == DigitsValue(SubSeq(s, k, intEnd - 1))
    IN IF intEnd <= Len(s) /\ s[intEnd] \in {"e", "E"}
       THEN LET expEnd == SkipDigits(s, intEnd + 1)
            IN IF expEnd = intEnd + 1 THEN ParseFail
               ELSE ParseOk(Num(int * Pow10(DigitsValue(SubSeq(s, intEnd + 1, expEnd - 1)))),
                            expEnd)
       ELSE ParseOk(Num(int), intEnd)

RECURSIVE ParseValue(_, _), ParseMembers(_, _, _), ParseElements(_, _, _)
\* a value opening at k (white space before it already skipped)
ParseValue(s, k) ==
    IF k > Len(s) THEN ParseFail
    ELSE IF s[k] = "{" THEN
        LET j == SkipWs(s, k + 1)
        IN IF j <= Len(s) /\ s[j] = "}" THEN ParseOk(Obj(<<>>), j + 1)
           ELSE ParseMembers(s, j, <<>>)
    ELSE IF s[k] = "[" THEN
        LET j == SkipWs(s, k + 1)
        IN IF j <= Len(s) /\ s[j] = "]" THEN ParseOk(Arr(<<>>), j + 1)
           ELSE ParseElements(s, j, <<>>)
    ELSE IF s[k] = "\"" THEN ParseString(s, k)
    ELSE IF IsDigit(s[k]) THEN ParseNumber(s, k)
    ELSE IF k + 3 <= Len(s) /\ SubSeq(s, k, k + 3) = W_true THEN ParseOk(Bool(TRUE), k + 4)
    ELSE IF k + 4 <= Len(s) /\ SubSeq(s, k, k + 4) = W_false THEN ParseOk(Bool(FALSE), k + 5)
    ELSE IF k + 3 <= Len(s) /\ SubSeq(s, k, k + 3) = W_null THEN ParseOk(Null, k + 4)
    ELSE ParseFail

\* the members of an object from k on: "key" : value, then , or }
ParseMembers(s, k, acc) ==
    IF k > Len(s) \/ s[k] # "\"" THEN ParseFail
    ELSE LET key == ParseString(s, k)
         IN IF ~key.ok THEN ParseFail
            ELSE LET c == SkipWs(s, key.pos)
                 IN IF c > Len(s) \/ s[c] # ":" THEN ParseFail
                    ELSE LET val == ParseValue(s, SkipWs(s, c + 1))
                         IN IF ~val.ok THEN ParseFail
                            ELSE LET n == SkipWs(s, val.pos)
                                     acc2 == SetProp(acc, key.val.v, val.val)
                                 IN IF n > Len(s) THEN ParseFail
                                    ELSE IF s[n] = "}" THEN ParseOk(Obj(acc2), n + 1)
                                    ELSE IF s[n] = ","
                                         THEN ParseMembers(s, SkipWs(s, n + 1), acc2)
                                    ELSE ParseFail

\* the elements of an array from k on: value, then , or ]
ParseElements(s, k, acc) ==
    LET val == ParseValue(s, k)
    IN IF ~val.ok THEN ParseFail
       ELSE LET n == SkipWs(s, val.pos)
                acc2 == Append(acc, val.val)
            IN IF n > Len(s) THEN ParseFail
               ELSE IF s[n] = "]" THEN ParseOk(Arr(acc2), n + 1)
               ELSE IF s[n] = "," THEN ParseElements(s, SkipWs(s, n + 1), acc2)
               ELSE ParseFail

\* JSON.parse(s): [ok |-> FALSE] stands for the SyntaxError it throws
JSONParse(s) ==
    LET r == ParseValue(s, SkipWs(s, 1))
    IN IF r.ok /\ SkipWs(s, r.pos) > Len(s) THEN r ELSE ParseFail

RECURSIVE NatToStr(_)
NatToStr(n) ==
    IF n < 10 THEN <<DigitChars[n + 1]>>
    ELSE NatToStr(n \div 10) \o <<DigitChars[(n % 10) + 1]>>

\* JSON.stringify(x, null, indent): sp = TRUE puts a blank after : and ,
RECURSIVE Stringify(_, _), StringifyMembers(_, _), StringifyElements(_, _)
Stringify(x, sp) ==
    CASE x.t = "null" -> W_null
      [] x.t = "bool" -> IF x.v THEN W_true ELSE W_false
      [] x.t = "num" -> NatToStr(x.v)
      [] x.t = "str" -> <<"\"">> \o x.v \o <<"\"">>
      [] x.t = "arr" -> <<"[">> \o StringifyElements(x.v, sp) \o <<"]">>
      [] x.t = "obj" -> <<"{">> \o StringifyMembers(x.v, sp) \o <<"}">>
StringifyMembers(ps, sp) ==
    IF ps = <<>> THEN <<>>
    ELSE <<"\"">> \o ps[1][1] \o <<"\"", ":">> \o (IF sp THEN <<" ">> ELSE <<>>)
         \o Stringify(ps[1][2], sp)
         \o (IF Len(ps) > 1
             THEN <<",">> \o (IF sp THEN <<" ">> ELSE <<>>) \o StringifyMembers(Tail(ps), sp)
             ELSE <<>>)
StringifyElements(xs, sp) ==
    IF xs = <<>> THEN <<>>
    ELSE Stringify(xs[1], sp)
         \o (IF Len(xs) > 1
             THEN <<",">> \o (IF sp THEN <<" ">> ELSE <<>>) \o StringifyElements(Tail(xs), sp)
             ELSE <<>>)

(***************************************************************************)
(* Configuration and the file selector.                                    *)
(***************************************************************************)
\* rules.ts: the rule set, ValidationRule {name, description, required}
codingRules ==
    << [name |-> "Code Quality", required |-> TRUE],
       [name |-> "Security", required |-> TRUE],
       [name |-> "Error Handling", required |-> TRUE],
       [name |-> "Testing", required |-> FALSE] >>

\* constructor: getInput('EXCLUDE_PATTERNS').split(',').map(p => p.trim()) ?? []
\* (split and map never yield null or undefined, so ?? [] never applies)
ParseExcludePatterns(input) ==
    LET parts == Split(input, ",")
    IN [k \in 1..Len(parts) |-> Trim(parts[k])]

\* pattern.replace(/\*/g, '.*')
RECURSIVE ReplaceStars(_)
ReplaceStars(p) ==
    IF p = <<>> THEN <<>>
    ELSE (IF Head(p) = "*" THEN <<".", "*">> ELSE <<Head(p)>>) \o ReplaceStars(Tail(p))

\* new RegExp(source): the atoms of the expression, each a character (the
\* dot stands for any character) with or without a following star
RECURSIVE RegExpAtoms(_)
RegExpAtoms(src) ==
    IF src = <<>> THEN <<>>
    ELSE IF Len(src) >= 2 /\ src[2] = "*"
         THEN <<[ch |-> src[1], star |-> TRUE]>> \o RegExpAtoms(SubSeq(src, 3, Len(src)))
         ELSE <<[ch |-> src[1], star |-> FALSE]>> \o RegExpAtoms(Tail(src))

AtomMatches(atom, c) == atom.ch = "." \/ atom.ch = c

\* whether atoms k.. match a substring of s that starts at position i
RECURSIVE MatchHere(_, _, _, _)
MatchHere(atoms, k, s, i) ==
    IF k > Len(atoms) THEN TRUE
    ELSE IF atoms[k].star
         THEN \E j \in i..(Len(s) + 1) :
                 /\ \A m \in i..(j - 1) : AtomMatches(atoms[k], s[m])
                 /\ MatchHere(atoms, k + 1, s, j)
         ELSE /\ i <= Len(s)
              /\ AtomMatches(atoms[k], s[i])
              /\ MatchHere(atoms, k + 1, s, i + 1)

\* regex.test(s): an unanchored match
RegExpTest(src, s) ==
    LET atoms == RegExpAtoms(src)
    IN \E i \in 1..(Len(s) + 1) : MatchHere(atoms, 1, s, i)

shouldExcludeFile(patterns, filename) ==
    IF Len(patterns) = 0 THEN FALSE
    ELSE \E k \in 1..Len(patterns) : RegExpTest(ReplaceStars(patterns[k]), filename)

\* a filter that removes an element while it walks the list, and so never
\* tests the element that follows a removed one
RECURSIVE FilterFilesSkipAfterRemoval(_, _)
FilterFilesSkipAfterRemoval(patterns, fs) ==
    IF fs = <<>> THEN <<>>
    ELSE IF shouldExcludeFile(patterns, Head(fs).filename)
         THEN IF Len(fs) >= 2
              THEN <<fs[2]>> \o FilterFilesSkipAfterRemoval(patterns, SubSeq(fs, 3, Len(fs)))
              ELSE <<>>
         ELSE <<Head(fs)>> \o FilterFilesSkipAfterRemoval(patterns, Tail(fs))

\* files.filter(file => !this.shouldExcludeFile(file.filename))
RECURSIVE FilterFiles(_, _)
FilterFiles(patterns, fs) ==
    IF fs = <<>> THEN <<>>
    ELSE (IF shouldExcludeFile(patterns, Head(fs).filename) THEN <<>> ELSE <<Head(fs)>>)
         \o FilterFiles(patterns, Tail(fs))

(***************************************************************************)
(* The prompt builder.                                                     *)
(***************************************************************************)
buildSystemPrompt(v) ==
    [ rules |-> [k \in 1..Len(codingRules) |->
                    [name |-> codingRules[k].name,
                     flag |-> IF codingRules[k].required THEN "(REQUIRED)" ELSE "(OPTIONAL)"]],
      schema |-> IF v = "minimal"
                 THEN <<"approved", "issues">>
                 ELSE <<"approved", "score", "issues", "suggestions", "summary">> ]

buildPRContent(fs, pr) ==
    [ title |-> pr.title,
      description |-> IF pr.body # "" THEN pr.body ELSE "No description provided",
      author |-> pr.login,
      filesChanged |-> Len(fs),
      sections |-> [k \in 1..Len(fs) |->
                      [filename |-> fs[k].filename,
                       status |-> fs[k].status,
                       additions |-> fs[k].additions,
                       deletions |-> fs[k].deletions,
                       diff |-> IF fs[k].patch # "" THEN <<fs[k].patch>> ELSE <<>>]] ]

PrimaryModel(v) == IF v = "minimal" THEN "gpt-5-latest" ELSE "gpt-5-2025-08-07"
FallbackModel == "gpt-4o"

\* the request of chat.completions.create
CompletionRequest(model, systemPrompt, prContent) ==
    [model |-> model, system |-> systemPrompt, user |-> prContent]

(***************************************************************************)
(* The result interpreter.                                                 *)
(***************************************************************************)
W_rejected == <<"r","e","j","e","c","t","e","d">>
W_notApproved == <<"n","o","t"," ","a","p","p","r","o","v","e","d">>
W_failedToParse == <<"F","a","i","l","e","d"," ","t","o"," ","p","a","r","s","e"," ","A","I"," ","a","n","a","l","y","s","i","s">>
W_parsingFailed == <<"A","n","a","l","y","s","i","s"," ","p","a","r","s","i","n","g"," ","f","a","i","l","e","d">>
W_ellipsis == <<".", ".", ".">>
K_choices == <<"c","h","o","i","c","e","s">>
K_message == <<"m","e","s","s","a","g","e">>
K_content == <<"c","o","n","t","e","n","t">>
K_zero == <<"0">>

DefaultScore == 75
SentinelScore == 0
SummaryLength == 200
BarCells == 10

\* a lazy match, /\{[\s\S]*?\}/: from the first { to the first } after it
JsonMatchLazy(s) ==
    LET opens == {k \in 1..Len(s) : s[k] = "{"}
        closes == {k \in 1..Len(s) : s[k] = "}"}
    IN IF opens # {} /\ closes # {} /\ MinOf(opens) < MaxOf(closes)
       THEN SubSeq(s, MinOf(opens), MinOf({k \in closes : k > MinOf(opens)}))
       ELSE <<>>

\* analysis.match(/\{[\s\S]*\}/): from the first { to the last }; <<>> is null
JsonMatch(s) ==
    LET opens == {k \in 1..Len(s) : s[k] = "{"}
        closes == {k \in 1..Len(s) : s[k] = "}"}
    IN IF opens # {} /\ closes # {} /\ MinOf(opens) < MaxOf(closes)
       THEN SubSeq(s, MinOf(opens), MaxOf(closes))
       ELSE <<>>

\* the fallback parsing without toLowerCase()
HeuristicResultCaseSensitive(v, s) ==
    LET approved == ~Includes(s, W_rejected) /\ ~Includes(s, W_notApproved)
    IN IF v = "minimal"
       THEN Obj(<< <<K_approved, Bool(approved)>>, <<K_issues, Arr(<<>>)>> >>)
       ELSE Obj(<< <<K_approved, Bool(approved)>>,
                   <<K_score, Num(DefaultScore)>>,
                   <<K_issues, Arr(<<>>)>>,
                   <<K_suggestions, Arr(<<>>)>>,
                   <<K_summary,
                     Str(SubSeq(s, 1, IF Len(s) < SummaryLength THEN Len(s) ELSE SummaryLength)
                         \o W_ellipsis)>> >>)

\* the object literal of the fallback parsing
HeuristicResult(v, s) ==
    LET approved == /\ ~Includes(ToLowerCase(s), W_rejected)
                    /\ ~Includes(ToLowerCase(s), W_notApproved)
    IN IF v = "minimal"
       THEN Obj(<< <<K_approved, Bool(approved)>>, <<K_issues, Arr(<<>>)>> >>)
       ELSE Obj(<< <<K_approved, Bool(approved)>>,
                   <<K_score, Num(DefaultScore)>>,
                   <<K_issues, Arr(<<>>)>>,
                   <<K_suggestions, Arr(<<>>)>>,
                   <<K_summary,
                     Str(SubSeq(s, 1, IF Len(s) < SummaryLength THEN Len(s) ELSE SummaryLength)
                         \o W_ellipsis)>> >>)

\* the object literal of the catch block
SentinelResult(v) ==
    IF v = "minimal"
    THEN Obj(<< <<K_approved, Bool(FALSE)>>, <<K_issues, Arr(<<Str(W_failedToParse)>>)>> >>)
    ELSE Obj(<< <<K_approved, Bool(FALSE)>>,
                <<K_score, Num(SentinelScore)>>,
                <<K_issues, Arr(<<Str(W_failedToParse)>>)>>,
                <<K_suggestions, Arr(<<>>)>>,
                <<K_summary, Str(W_parsingFailed)>> >>)

\* whether the try block of parseAnalysisResult throws (JSON.parse does)
ParseThrows(s) == JsonMatch(s) # <<>> /\ ~JSONParse(JsonMatch(s)).ok

parseAnalysisResult(v, s) ==
    IF JsonMatch(s) # <<>>
    THEN IF JSONParse(JsonMatch(s)).ok
         THEN JSONParse(JsonMatch(s)).val
         ELSE SentinelResult(v)
    ELSE HeuristicResult(v, s)

(***************************************************************************)
(* The comment renderer.                                                   *)
(***************************************************************************)
Nullish(x) == x.t \in {"undefined", "null"}

\* property read x.key on a value that is not null or undefined
Prop(x, key) == IF x.t = "obj" THEN Get(x, key) ELSE Undefined

\* ToNumber of a string: blank is 0, a run of digits its value, else NaN
StringToNumber(s) ==
    LET t == Trim(s)
    IN IF t = <<>> THEN Num(0)
       ELSE IF \A k \in 1..Len(t) : IsDigit(t[k]) THEN Num(DigitsValue(t))
       ELSE NaN

\* ToNumber, the conversion applied by / and >
RECURSIVE ToNumber(_)
ToNumber(x) ==
    CASE x.t = "num" -> x
      [] x.t = "str" -> StringToNumber(x.v)
      [] x.t = "bool" -> Num(IF x.v THEN 1 ELSE 0)
      [] x.t = "null" -> Num(0)
      [] x.t = "arr" ->
            IF Len(x.v) = 0 THEN Num(0)
            ELSE IF Len(x.v) > 1 THEN NaN
            ELSE IF Nullish(x.v[1]) THEN Num(0)
            ELSE IF x.v[1].t \in {"num", "str", "arr"} THEN ToNumber(x.v[1])
            ELSE NaN
      [] OTHER -> NaN

\* Math.round(score / 10): the nearest tenth instead of the floor
RoundTenth(score) ==
    LET n == ToNumber(score)
    IN IF n.t = "num" THEN Num((n.v + 5) \div 10) ELSE NaN

\* Math.floor(score / 10)
FloorTenth(score) ==
    LET n == ToNumber(score)
    IN IF n.t = "num" THEN Num(n.v \div 10) ELSE NaN

\* cell.repeat(count): NaN counts as 0; a negative count is a RangeError
Repeat(cell, count) ==
    IF count.t # "num" THEN [throws |-> FALSE, cells |-> <<>>]
    ELSE IF count.v < 0 THEN [throws |-> TRUE, cells |-> <<>>]
    ELSE [throws |-> FALSE, cells |-> [k \in 1..count.v |-> cell]]

\* the score bar of the extended variant
ScoreBar(score) ==
    LET filled == FloorTenth(score)
        rest == IF filled.t = "num" THEN Num(BarCells - filled.v) ELSE NaN
        a == Repeat("filled", filled)
        b == Repeat("empty", rest)
    IN [throws |-> a.throws \/ b.throws, cells |-> a.cells \o b.cells]

\* x.length
LengthOf(x) ==
    CASE x.t \in {"arr", "str"} -> Num(Len(x.v))
      [] x.t = "obj" -> Get(x, K_length)
      [] OTHER -> Undefined

\* `if (x.length > 0) { ... x.map(...) ... }`: the items listed, or a TypeError
\* (x is null or undefined, or x has a positive length and no map method)
ListSection(x) ==
    IF Nullish(x) THEN [throws |-> TRUE, items |-> <<>>]
    ELSE LET n == ToNumber(LengthOf(x))
         IN IF n.t = "num" /\ n.v > 0
            THEN IF x.t = "arr" THEN [throws |-> FALSE, items |-> x.v]
                 ELSE [throws |-> TRUE, items |-> <<>>]
            ELSE [throws |-> FALSE, items |-> <<>>]

\* postReviewComment up to the createComment request: the comment body, or
\* the error thrown while rendering it
RenderComment(v, r) ==
    LET bar == IF v = "extended" THEN ScoreBar(Get(r, K_score))
               ELSE [throws |-> FALSE, cells |-> <<>>]
        issues == ListSection(Get(r, K_issues))
        suggestions == IF v = "extended" THEN ListSection(Get(r, K_suggestions))
                       ELSE [throws |-> FALSE, items |-> <<>>]
        error == IF bar.throws THEN "RangeError"
                 ELSE IF issues.throws \/ suggestions.throws THEN "TypeError"
                 ELSE ""
    IN [ throws |-> error # "",
         error |-> error,
         body |-> [ status |-> IF Truthy(Get(r, K_approved))
                               THEN "APPROVED" ELSE "CHANGES REQUESTED",
                    score |-> IF v = "extended" THEN Get(r, K_score) ELSE Undefined,
                    scoreBar |-> bar.cells,
                    summary |-> IF v = "extended" THEN Get(r, K_summary) ELSE Undefined,
                    issues |-> issues.items,
                    suggestions |-> suggestions.items ] ]

(***************************************************************************)
(* The review engine: reading the text out of the completion response.     *)
(***************************************************************************)
\* x[0]
First(x) ==
    CASE x.t = "arr" -> IF Len(x.v) > 0 THEN x.v[1] ELSE Undefined
      [] x.t = "obj" -> Get(x, K_zero)
      [] x.t = "str" -> IF Len(x.v) > 0 THEN Str(<<x.v[1]>>) ELSE Undefined
      [] OTHER -> Undefined

\* the same reading without `if (!analysis) throw`
ExtractAnalysisUnchecked(resp) ==
    IF Nullish(resp) THEN [throws |-> FALSE, error |-> "", text |-> <<>>]
    ELSE IF Nullish(Prop(resp, K_choices))
         THEN [throws |-> TRUE, error |-> "TypeError", text |-> <<>>]
    ELSE LET choice == First(Prop(resp, K_choices))
             message == IF Nullish(choice) THEN Undefined ELSE Prop(choice, K_message)
             content == IF Nullish(message) THEN Undefined ELSE Prop(message, K_content)
         IN [throws |-> FALSE, error |-> "",
             text |-> IF content.t = "str" THEN content.v ELSE <<>>]

\* response?.choices[0]?.message?.content, then `if (!analysis) throw`
\* (a content of the model's responses is a string or null)
ExtractAnalysis(resp) ==
    IF Nullish(resp) THEN [throws |-> TRUE, error |-> "No response from OpenAI", text |-> <<>>]
    ELSE IF Nullish(Prop(resp, K_choices))
         THEN [throws |-> TRUE, error |-> "TypeError", text |-> <<>>]
    ELSE LET choice == First(Prop(resp, K_choices))
             message == IF Nullish(choice) THEN Undefined ELSE Prop(choice, K_message)
             content == IF Nullish(message) THEN Undefined ELSE Prop(message, K_content)
         IN IF ~Truthy(content)
            THEN [throws |-> TRUE, error |-> "No response from OpenAI", text |-> <<>>]
            ELSE [throws |-> FALSE, error |-> "", text |-> content.v]

(***************************************************************************)
(* Inputs: what the environment and the two external services hand over.   *)
(***************************************************************************)
NoPullRequest == [present |-> FALSE, number |-> 0, title |-> "", body |-> "", login |-> ""]
Contexts ==
    { <<"pull_request", [present |-> TRUE, number |-> 7, title |-> "Add parser",
                         body |-> "Adds the parser", login |-> "octocat"]>>,
      <<"pull_request", [present |-> TRUE, number |-> 8, title |-> "Fix typo",
                         body |-> "", login |-> "octocat"]>>,
      <<"pull_request", NoPullRequest>>,
      <<"push", NoPullRequest>>,
      <<"pull_request_target", [present |-> TRUE, number |-> 7, title |-> "Add parser",
                                body |-> "Adds the parser", login |-> "octocat"]>> }

ExcludeInputs == { <<>>, <<"*",".","m","d">>, <<"*",".","m","d",","," ","*",".","l","o","c","k">> }

ChangedFile(name, patch) ==
    [filename |-> name, status |-> "modified", additions |-> 1, deletions |-> 0,
     patch |-> patch]
FilePool ==
    { ChangedFile(<<"R","E","A","D","M","E",".","m","d">>, "@@ -1 +1 @@ readme"),
      ChangedFile(<<"s","r","c","/","a","p","p",".","t","s">>, "@@ -1 +1 @@ app"),
      ChangedFile(<<"c","m","d">>, ""),
      ChangedFile(<<"a",".","l","o","c","k">>, "@@ -1 +1 @@ lock") }
\* the lists pulls.listFiles may return: distinct files, at most MaxFiles
FileLists ==
    UNION { { fs \in [1..n -> FilePool] : \A a, b \in 1..n : a # b => fs[a] # fs[b] }
            : n \in 0..MaxFiles }

\* the message texts a completion may carry
T_x == <<"x">>
T_y == <<"y">>
T_ok == <<"o", "k">>
ResponseTexts ==
    { Stringify(Obj(<< <<K_approved, Bool(TRUE)>>, <<K_issues, Arr(<<>>)>> >>), FALSE),
      Stringify(Obj(<< <<K_approved, Bool(FALSE)>>, <<K_issues, Arr(<<Str(T_x)>>)>> >>), TRUE),
      Stringify(Obj(<< <<K_approved, Bool(TRUE)>> >>), FALSE),
      Stringify(Obj(<< <<K_approved, Bool(TRUE)>>, <<K_score, Num(85)>>,
                       <<K_issues, Arr(<<>>)>>, <<K_suggestions, Arr(<<Str(T_y)>>)>>,
                       <<K_summary, Str(T_ok)>> >>), FALSE),
      Stringify(Obj(<< <<K_approved, Bool(TRUE)>>, <<K_score, Num(150)>>,
                       <<K_issues, Arr(<<>>)>>, <<K_suggestions, Arr(<<>>)>>,
                       <<K_summary, Str(T_ok)>> >>), FALSE),
      <<"L","G","T","M">>,
      <<"R","e","j","e","c","t","e","d">>,
      <<"L","G","T","M"," ","{","o","o","p","s","}">> }

Message(content) == Obj(<< <<K_message, Obj(<< <<K_content, content>> >>)>> >>)
\* what chat.completions.create may resolve to
Responses ==
    { Null,
      Obj(<<>>),
      Obj(<< <<K_choices, Arr(<<>>)>> >>),
      Obj(<< <<K_choices, Arr(<<Obj(<<>>)>>)>> >>),
      Obj(<< <<K_choices, Arr(<<Message(Null)>>)>> >>),
      Obj(<< <<K_choices, Arr(<<Message(Str(<<>>))>>)>> >>) }
    \cup { Obj(<< <<K_choices, Arr(<<Message(Str(t))>>)>> >>) : t \in ResponseTexts }

(***************************************************************************)
(* run(): one action per step of the pipeline.                             *)
(***************************************************************************)
Info(msg) == <<"info", msg>>
ActionFailed(error) == [msg |-> "Action failed", error |-> error]
SetFailed(msg) == [msg |-> msg, error |-> ""]

Init ==
    /\ variant \in {"minimal", "extended"}
    /\ \E c \in Contexts : eventName = c[1] /\ pullRequest = c[2]
    /\ excludeInput \in ExcludeInputs
    /\ excludePatterns = ParseExcludePatterns(excludeInput)
    /\ pc = "start"
    /\ listed = <<>>
    /\ files = <<>>
    /\ listCalls = 0
    /\ calls = <<>>
    /\ response = Null
    /\ parseCalls = 0
    /\ analysis = <<>>
    /\ result = Undefined
    /\ comments = <<>>
    /\ statuses = <<>>
    /\ failed = <<>>
    /\ log = <<>>
    /\ obj = Undefined
    /\ prefix = <<>>
    /\ suffix = <<>>
    /\ refiltered = <<>>

\* the check of the event name alone
ContextErrorEventOnly(ev, pr) ==
    IF ev # "pull_request" THEN "This action only works on pull_request events"
    ELSE ""

\* run: the message of the early return, "" when the run goes on
ContextError(ev, pr) ==
    IF ev # "pull_request" THEN "This action only works on pull_request events"
    ELSE IF ~pr.present THEN "No pull request found in context"
    ELSE ""

\* run, up to the first request: the checks of the event and of the payload
RunStart ==
    /\ pc = "start"
    /\ LET error == ContextError(eventName, pullRequest)
       IN IF error # ""
          THEN /\ failed' = Append(failed, SetFailed(error))
               /\ pc' = "done"
               /\ log' = log
          ELSE /\ failed' = failed
               /\ pc' = "getPRFiles"
               /\ log' = Append(log, Info("Starting AI review"))
    /\ UNCHANGED <<variant, eventName, pullRequest, excludeInput, excludePatterns,
                   listed, files, listCalls, calls, response, parseCalls, analysis,
                   result, comments, statuses, obj, prefix, suffix, refiltered>>

\* the value getPRFiles returns for the data of pulls.listFiles
getPRFiles(patterns, fs) == FilterFiles(patterns, fs)

\* a run that requests the list again when the request has thrown
AfterListFilesRetry(threw) == IF threw THEN "getPRFiles" ELSE "analyzePR"

\* run: where it goes after the listFiles request: its catch block when the
\* request has thrown, analyzePR otherwise
AfterListFiles(threw) == IF threw THEN "done" ELSE "analyzePR"

\* getPRFiles: the listFiles request throws (run's catch reports it), or
\* its data is filtered
GetPRFiles ==
    /\ pc = "getPRFiles"
    /\ listCalls' = listCalls + 1
    /\ \/ /\ pc' = AfterListFiles(TRUE)
          /\ failed' = IF pc' = "done" THEN Append(failed, ActionFailed("listFiles"))
                       ELSE failed
          /\ UNCHANGED <<listed, files, log>>
       \/ \E fs \in FileLists :
             /\ listed' = fs
             /\ files' = getPRFiles(excludePatterns, fs)
             /\ log' = Append(log, <<"info", "Analyzing", Len(files'), Len(fs)>>)
             /\ pc' = AfterListFiles(FALSE)
             /\ failed' = failed
    /\ UNCHANGED <<variant, eventName, pullRequest, excludeInput, excludePatterns,
                   calls, response, parseCalls, analysis, result, comments, statuses,
                   obj, prefix, suffix, refiltered>>

\* a fallback request whose user prompt is rebuilt from the unfiltered list
FallbackRequestUnfiltered(v, fs, pr) ==
    CompletionRequest(FallbackModel, buildSystemPrompt(v), buildPRContent(listed, pr))

\* the two requests of analyzePR
PrimaryRequest(v, fs, pr) ==
    CompletionRequest(PrimaryModel(v), buildSystemPrompt(v), buildPRContent(fs, pr))
FallbackRequest(v, fs, pr) ==
    CompletionRequest(FallbackModel, buildSystemPrompt(v), buildPRContent(fs, pr))

\* a catch block that tries the fallback again when it throws
AfterFallbackRetry(threw) == IF threw THEN "fallback" ELSE "extract"

\* a request as `calls` records it
Call(req, threw) ==
    [model |-> req.model, system |-> req.system, user |-> req.user, threw |-> threw]

\* where analyzePR goes on after the primary request: into its catch block
\* when the request threw, else to the reading of the response
AfterPrimary(threw) == IF threw THEN "fallback" ELSE "extract"
\* where the run goes on after the fallback request: a throw leaves analyzePR
AfterFallback(threw) == IF threw THEN "done" ELSE "extract"

\* analyzePR: the request with the primary model
AnalyzePrimary ==
    /\ pc = "analyzePR"
    /\ \/ /\ calls' = Append(calls, Call(PrimaryRequest(variant, files, pullRequest), TRUE))
          /\ log' = log \o << <<"error", "OpenAI API error">>,
                             Info("Attempting to change the model to gpt-4o") >>
          /\ pc' = AfterPrimary(TRUE)
          /\ response' = response
       \/ \E r \in Responses :
             /\ calls' = Append(calls, Call(PrimaryRequest(variant, files, pullRequest), FALSE))
             /\ response' = r
             /\ pc' = AfterPrimary(FALSE)
             /\ log' = log
    /\ UNCHANGED <<variant, eventName, pullRequest, excludeInput, excludePatterns,
                   listed, files, listCalls, parseCalls, analysis, result, comments,
                   statuses, failed, obj, prefix, suffix, refiltered>>

\* analyzePR: the catch block, the request with the fallback model
AnalyzeFallback ==
    /\ pc = "fallback"
    /\ \/ /\ calls' = Append(calls, Call(FallbackRequest(variant, files, pullRequest), TRUE))
          /\ pc' = AfterFallback(TRUE)
          /\ failed' = IF pc' = "done" THEN Append(failed, ActionFailed("completion"))
                       ELSE failed
          /\ response' = response
       \/ \E r \in Responses :
             /\ calls' = Append(calls, Call(FallbackRequest(variant, files, pullRequest), FALSE))
             /\ response' = r
             /\ pc' = AfterFallback(FALSE)
             /\ failed' = failed
    /\ UNCHANGED <<variant, eventName, pullRequest, excludeInput, excludePatterns,
                   listed, files, listCalls, parseCalls, analysis, result, comments,
                   statuses, log, obj, prefix, suffix, refiltered>>

\* the state after parseAnalysisResult(text) has returned
Interpreted(text) ==
    /\ analysis' = text
    /\ result' = parseAnalysisResult(variant, text)
    /\ parseCalls' = parseCalls + 1
    /\ log' = IF ParseThrows(text)
              THEN Append(log, <<"warning", "Failed to parse analysis result">>)
              ELSE log

\* analyzePR: the text is read out of the response and interpreted, or the
\* error thrown on the way leaves analyzePR (run's catch reports it)
AnalyzeExtract ==
    /\ pc = "extract"
    /\ LET e == ExtractAnalysis(response)
       IN IF e.throws
          THEN /\ failed' = Append(failed, ActionFailed(e.error))
               /\ pc' = "done"
               /\ UNCHANGED <<analysis, result, parseCalls, log>>
          ELSE /\ Interpreted(e.text)
               /\ pc' = "postReviewComment"
               /\ failed' = failed
    /\ UNCHANGED <<variant, eventName, pullRequest, excludeInput, excludePatterns,
                   listed, files, listCalls, calls, response, comments, statuses,
                   obj, prefix, suffix, refiltered>>

\* a run that posts the comment again when createComment has thrown
AfterCommentRetry(ok) == IF ok THEN "report" ELSE "postReviewComment"

\* run: where it goes after the createComment request: to the outcome when
\* the request resolved, into its catch block when it threw
AfterComment(ok) == IF ok THEN "report" ELSE "done"

\* postReviewComment: rendering throws, or createComment is requested and
\* resolves or throws
PostReviewComment ==
    /\ pc = "postReviewComment"
    /\ LET c == RenderComment(variant, result)
       IN IF c.throws
          THEN /\ failed' = Append(failed, ActionFailed(c.error))
               /\ pc' = "done"
               /\ comments' = comments
          ELSE \E ok \in BOOLEAN :
                  /\ comments' = Append(comments, [body |-> c.body, posted |-> ok])
                  /\ pc' = AfterComment(ok)
                  /\ failed' = IF pc' = "done"
                               THEN Append(failed, ActionFailed("createComment"))
                               ELSE failed
    /\ UNCHANGED <<variant, eventName, pullRequest, excludeInput, excludePatterns,
                   listed, files, listCalls, calls, response, parseCalls, analysis,
                   result, statuses, log, obj, prefix, suffix, refiltered>>

\* the verdict run reports for a result: `if (analysisResult.approved)`
Approves(r) == Truthy(Get(r, K_approved))

\* a status that reads success whatever the verdict
StatusStateSuccess(approved) == "success"

\* run: the state handed to setStatus on either branch of the verdict
StatusState(approved) == IF approved THEN "success" ELSE "failure"

\* run: the outcome, and in the extended variant the commit status
ReportOutcome ==
    /\ pc = "report"
    /\ log' = IF Approves(result) THEN Append(log, Info("PR approved by AI reviewer"))
              ELSE log
    /\ LET verdict == IF Approves(result) THEN <<>>
                      ELSE <<SetFailed("PR rejected by AI reviewer")>>
       IN IF variant = "minimal"
          THEN /\ failed' = failed \o verdict
               /\ statuses' = statuses
          ELSE \E ok \in BOOLEAN :
                  /\ statuses' = Append(statuses,
                        [state |-> StatusState(Approves(result)),
                         description |-> Get(result, K_summary),
                         created |-> ok])
                  /\ failed' = failed \o verdict
                        \o (IF ok THEN <<>> ELSE <<ActionFailed("createCommitStatus")>>)
    /\ pc' = "done"
    /\ UNCHANGED <<variant, eventName, pullRequest, excludeInput, excludePatterns,
                   listed, files, listCalls, calls, response, parseCalls, analysis,
                   result, comments, obj, prefix, suffix, refiltered>>

Next ==
    \/ RunStart
    \/ GetPRFiles
    \/ AnalyzePrimary
    \/ AnalyzeFallback
    \/ AnalyzeExtract
    \/ PostReviewComment
    \/ ReportOutcome

Spec == Init /\ [][Next]_vars

(***************************************************************************)
(* The result interpreter on its own: parseAnalysisResult applied to a     *)
(* text drawn from the concatenations of a few chunks, or to a serialised  *)
(* object set in prose.                                                    *)
(***************************************************************************)
Chunks ==
    { <<"r","e","j","e","c","t","e","d">>, <<"R","E","J">>, <<"E","C","T","E","D">>, <<"n","o","t"," ">>, <<"A","p","p","r","o","v","e","d">>, <<"{">>, <<"}">>,
      <<"\"","a","\"",":","1">>, <<"o","k">> }
\* the concatenations of 1..n chunks of a set
RECURSIVE ConcatsOf(_, _)
ConcatsOf(chunks, n) ==
    IF n = 0 THEN {<<>>}
    ELSE LET shorter == ConcatsOf(chunks, n - 1)
         IN shorter \cup {c \o t : c \in chunks, t \in shorter}
\* parseAnalysisResult is only called with a non-empty text
ChunkTexts == ConcatsOf(Chunks, MaxChunks) \ {<<>>}

ProseChunks == { <<"a"," ">>, <<"{">>, <<"}">> }
Prose == ConcatsOf(ProseChunks, MaxProse)

K_a == <<"a">>
K_b == <<"b">>
Objects ==
    { Obj(<<>>),
      Obj(<< <<K_approved, Bool(TRUE)>>, <<K_issues, Arr(<<>>)>> >>),
      Obj(<< <<K_approved, Bool(FALSE)>>, <<K_issues, Arr(<<Str(<<"{","x","}">>), Str(T_y)>>)>> >>),
      Obj(<< <<K_approved, Bool(TRUE)>>, <<K_score, Num(85)>>,
             <<K_issues, Arr(<<>>)>>, <<K_suggestions, Arr(<<Str(T_y)>>)>>,
             <<K_summary, Str(T_ok)>> >>),
      Obj(<< <<K_a, Obj(<< <<K_b, Null>> >>)>>, <<K_b, Num(10)>> >>) }

InitParse ==
    /\ variant \in {"minimal", "extended"}
    /\ eventName = "pull_request"
    /\ pullRequest = NoPullRequest
    /\ excludeInput = <<>>
    /\ excludePatterns = ParseExcludePatterns(excludeInput)
    /\ pc = "parse"
    /\ listed = <<>>
    /\ files = <<>>
    /\ listCalls = 0
    /\ calls = <<>>
    /\ response = Null
    /\ parseCalls = 0
    /\ result = Undefined
    /\ comments = <<>>
    /\ statuses = <<>>
    /\ failed = <<>>
    /\ log = <<>>
    /\ \/ /\ analysis \in ChunkTexts
          /\ obj = Undefined
          /\ prefix = <<>>
          /\ suffix = <<>>
       \/ /\ obj \in Objects
          /\ prefix \in Prose
          /\ suffix \in Prose
          /\ \E sp \in BOOLEAN : analysis = prefix \o Stringify(obj, sp) \o suffix
    /\ refiltered = <<>>

\* one call of parseAnalysisResult
Parse ==
    /\ pc = "parse"
    /\ Interpreted(analysis)
    /\ pc' = "parsed"
    /\ UNCHANGED <<variant, eventName, pullRequest, excludeInput, excludePatterns,
                   listed, files, listCalls, calls, response, comments, statuses,
                   failed, obj, prefix, suffix, refiltered>>

NextParse == Parse

SpecParse == InitParse /\ [][NextParse]_vars

(***************************************************************************)
(* The file selector on its own: getPRFiles' filter applied to a list of   *)
(* changed files under the patterns of an EXCLUDE_PATTERNS input, and then *)
(* applied again to its own result.                                        *)
(***************************************************************************)
FilterInputs ==
    { <<>>, <<"*",".","m","d">>, <<"*",".","m","d",","," ","*",".","l","o","c","k">>, <<"s","r","c","/","*">>, <<".","m","d">>, <<"*">>, <<"a","*","k">>,
      <<"*",".","m","d",",">>, <<" ","*",".","t","s"," ">>, <<"R","E","A","D","M","E">> }
FilterFilePool ==
    FilePool \cup { ChangedFile(<<"a",".","m","d",".","b","a","k">>, "@@ -1 +1 @@ bak"),
                    ChangedFile(<<"l","i","b","/","x",".","t","s">>, "@@ -1 +1 @@ x") }
FilterFileLists ==
    UNION { { fs \in [1..n -> FilterFilePool] : \A a, b \in 1..n : a # b => fs[a] # fs[b] }
            : n \in 0..MaxFiles }

InitFilter ==
    /\ variant \in {"minimal", "extended"}
    /\ eventName = "pull_request"
    /\ pullRequest = NoPullRequest
    /\ excludeInput \in FilterInputs
    /\ excludePatterns = ParseExcludePatterns(excludeInput)
    /\ pc = "filter"
    /\ listed \in FilterFileLists
    /\ files = <<>>
    /\ listCalls = 0
    /\ calls = <<>>
    /\ response = Null
    /\ parseCalls = 0
    /\ analysis = <<>>
    /\ result = Undefined
    /\ comments = <<>>
    /\ statuses = <<>>
    /\ failed = <<>>
    /\ log = <<>>
    /\ obj = Undefined
    /\ prefix = <<>>
    /\ suffix = <<>>
    /\ refiltered = <<>>

\* the filter of getPRFiles on the listed files
Filter ==
    /\ pc = "filter"
    /\ files' = getPRFiles(excludePatterns, listed)
    /\ pc' = "filtered"
    /\ UNCHANGED <<variant, eventName, pullRequest, excludeInput, excludePatterns,
                   listed, listCalls, calls, response, parseCalls, analysis, result,
                   comments, statuses, failed, log, obj, prefix, suffix, refiltered>>

\* the same filter on the files it returned
Refilter ==
    /\ pc = "filtered"
    /\ refiltered' = getPRFiles(excludePatterns, files)
    /\ pc' = "refiltered"
    /\ UNCHANGED <<variant, eventName, pullRequest, excludeInput, excludePatterns,
                   listed, files, listCalls, calls, response, parseCalls, analysis,
                   result, comments, statuses, failed, log, obj, prefix, suffix>>

NextFilter == Filter \/ Refilter

SpecFilter == InitFilter /\ [][NextFilter]_vars

(***************************************************************************)
(* The comment renderer of the extended variant on its own:                *)
(* postReviewComment applied to a result whose score is any integer of the *)
(* range the system prompt asks for.                                       *)
(***************************************************************************)
MaxScore == 100
RenderResults ==
    { Obj(<< <<K_approved, Bool(a)>>, <<K_score, Num(n)>>, <<K_issues, Arr(is)>>,
             <<K_suggestions, Arr(<<>>)>>, <<K_summary, Str(T_ok)>> >>)
      : a \in BOOLEAN, n \in 0..MaxScore, is \in {<<>>, <<Str(T_x)>>} }

InitRender ==
    /\ variant = "extended"
    /\ eventName = "pull_request"
    /\ pullRequest = NoPullRequest
    /\ excludeInput = <<>>
    /\ excludePatterns = ParseExcludePatterns(excludeInput)
    /\ pc = "postReviewComment"
    /\ listed = <<>>
    /\ files = <<>>
    /\ listCalls = 0
    /\ calls = <<>>
    /\ response = Null
    /\ parseCalls = 0
    /\ analysis = <<>>
    /\ result \in RenderResults
    /\ comments = <<>>
    /\ statuses = <<>>
    /\ failed = <<>>
    /\ log = <<>>
    /\ obj = result
    /\ prefix = <<>>
    /\ suffix = <<>>
    /\ refiltered = <<>>

NextRender == PostReviewComment

SpecRender == InitRender /\ [][NextRender]_vars

(***************************************************************************)
(* Vocabulary of the claims, stated on the texts and the histories rather  *)
(* than through the operators of the pipeline.                             *)
(***************************************************************************)
RunSignalsFailure == failed # <<>>
ResultConstructed == result # Undefined

PrimaryThrew == Len(calls) >= 1 /\ calls[1].threw
FallbackCalls(cs) == {k \in 1..Len(cs) : cs[k].model = FallbackModel}
BothThrew == Len(calls) = 2 /\ calls[1].threw /\ calls[2].threw
\* the last completion request resolved: analyzePR holds a response
ResponseReceived == Len(calls) >= 1 /\ ~calls[Len(calls)].threw
\* listFiles resolved: getPRFiles has returned
FilesListed ==
    \/ pc \in {"analyzePR", "fallback", "extract", "postReviewComment", "report"}
    \/ pc = "done" /\ Len(calls) >= 1

\* the first choice's message text of a response, Undefined when there is none
FirstChoiceText(resp) ==
    IF /\ resp.t = "obj"
       /\ Get(resp, K_choices).t = "arr"
       /\ Len(Get(resp, K_choices).v) >= 1
       /\ Get(resp, K_choices).v[1].t = "obj"
       /\ Get(Get(resp, K_choices).v[1], K_message).t = "obj"
    THEN Get(Get(Get(resp, K_choices).v[1], K_message), K_content)
    ELSE Undefined
TextAbsent(resp) == FirstChoiceText(resp).t # "str"
TextEmpty(resp) == FirstChoiceText(resp) = Str(<<>>)

\* the text holds a { with a } somewhere after it
HasSpan(s) == \E i, j \in 1..Len(s) : i < j /\ s[i] = "{" /\ s[j] = "}"
SpanOf(s) ==
    SubSeq(s, MinOf({i \in 1..Len(s) : s[i] = "{"}), MaxOf({j \in 1..Len(s) : s[j] = "}"}))
\* sub occurs in the lower-cased text
OccursLowered(sub, s) ==
    \E i \in 1..(Len(s) - Len(sub) + 1) :
        \A k \in 1..Len(sub) : LowerChar(s[i + k - 1]) = sub[k]
SaysRejected(s) == OccursLowered(W_rejected, s) \/ OccursLowered(W_notApproved, s)
HasChar(s, c) == \E k \in 1..Len(s) : s[k] = c

\* equal property for property
SameProperties(a, b) ==
    /\ a.t = "obj"
    /\ Keys(a) = Keys(b)
    /\ \A key \in Keys(b) : Get(a, key) = Get(b, key)

\* the glob reading of a pattern: a star stands for any run of characters,
\* every other character for itself; whether characters k.. of the pattern
\* match a substring of s that starts at position i
RECURSIVE GlobHere(_, _, _, _)
GlobHere(p, k, s, i) ==
    IF k > Len(p) THEN TRUE
    ELSE IF p[k] = "*"
         THEN \E j \in i..(Len(s) + 1) : GlobHere(p, k + 1, s, j)
         ELSE /\ i <= Len(s)
              /\ s[i] = p[k]
              /\ GlobHere(p, k + 1, s, i + 1)
\* the pattern occurs unanchored in the name
GlobOccurs(p, s) == \E i \in 1..(Len(s) + 1) : GlobHere(p, 1, s, i)
GlobExcluded(patterns, name) == \E k \in 1..Len(patterns) : GlobOccurs(patterns[k], name)
\* the files of a list that no pattern matches, in the order of the list
GlobKept(patterns, fs) ==
    LET Keep(f) == ~GlobExcluded(patterns, f.filename)
    IN SelectSeq(fs, Keep)

\* the listFiles request was made and getPRFiles has not returned a list
ListingFailed == listCalls >= 1 /\ ~FilesListed

\* the approved / rejected outcome has been reported
OutcomeReported(lg, fl) ==
    \/ \E k \in 1..Len(lg) : lg[k] = Info("PR approved by AI reviewer")
    \/ \E k \in 1..Len(fl) : fl[k] = SetFailed("PR rejected by AI reviewer")
\* the positions of run in the order of its text
StageRank(p) ==
    CASE p = "start" -> 0
      [] p = "getPRFiles" -> 1
      [] p = "analyzePR" -> 2
      [] p = "fallback" -> 3
      [] p = "extract" -> 4
      [] p = "postReviewComment" -> 5
      [] p = "report" -> 6
      [] p = "done" -> 7

(***************************************************************************)
(* The claims.                                                             *)
(***************************************************************************)

\* C1: a run on a pull_request event signals failure (core.setFailed is
\* called) if and only if the result's approved field is false, for every
\* result of the interpreter and every outcome of the later external calls.
C1_FailureIffNotApproved ==
    (pc = "done" /\ ResultConstructed)
        => (RunSignalsFailure <=> Get(result, K_approved) = Bool(FALSE))

\* C2: whenever the primary completion request throws, the very next step
\* is the request with the fallback model gpt-4o, carrying the system and
\* user prompts of the primary request; the fallback is requested exactly
\* once, as the second request, and never when the primary did not throw.
C2_FallbackFollowsPrimaryFailure ==
    [][ /\ (PrimaryThrew /\ FallbackCalls(calls) = {})
            => \E threw \in BOOLEAN :
                  calls' = Append(calls, [model |-> FallbackModel,
                                          system |-> calls[1].system,
                                          user |-> calls[1].user,
                                          threw |-> threw])
        /\ FallbackCalls(calls') # {}
            => (PrimaryThrew /\ FallbackCalls(calls') = {2} /\ Len(calls') = 2)
        /\ Len(calls') >= 1 => calls'[1].model = PrimaryModel(variant) ]_vars

\* a run in which the fallback was requested for a pull request with files
C2_Witness ==
    /\ Len(calls) = 2
    /\ calls[1].threw
    /\ calls[2].model = FallbackModel
    /\ calls[2].user = calls[1].user
    /\ calls[2].user.filesChanged > 0
    /\ Len(listed) > Len(files)

\* C3: no run makes more than two completion requests, and when both the
\* primary and the fallback request throw, no result is constructed,
\* createComment is never requested and the run signals failure.
C3_BothThrowFailsRun ==
    /\ Len(calls) <= 2
    /\ BothThrew => /\ ~ResultConstructed
                    /\ parseCalls = 0
                    /\ comments = <<>>
                    /\ pc = "done"
                    /\ RunSignalsFailure

\* a run that ended after both requests threw
C3_Witness == BothThrew /\ pc = "done" /\ Len(failed) = 1

\* C4: a run never fails on a failure of the primary request (a throw, or
\* a response from which no first-choice message text can be read) without
\* the fallback model having been requested.
C4_FallbackBeforeFailure ==
    ( /\ pc = "done"
      /\ RunSignalsFailure
      /\ Len(calls) >= 1
      /\ (calls[1].threw \/ (Len(calls) = 1 /\ TextAbsent(response))) )
        => (Len(calls) = 2 /\ calls[2].model = FallbackModel)

\* C5: when the response analyzePR ends up with has an empty or absent
\* first-choice message text, parseAnalysisResult is not called, no result
\* is constructed, no comment is posted and the run signals failure.
C5_EmptyTextRaises ==
    (ResponseReceived /\ pc # "extract" /\ (TextAbsent(response) \/ TextEmpty(response)))
        => /\ parseCalls = 0
           /\ ~ResultConstructed
           /\ comments = <<>>
           /\ pc = "done"
           /\ RunSignalsFailure

\* a run that ended on a response whose message text is the empty string
C5_Witness ==
    /\ pc = "done"
    /\ ResponseReceived
    /\ TextEmpty(response)
    /\ RunSignalsFailure
    /\ parseCalls = 0

\* C6: when the span from the first { to the last } is malformed JSON,
\* parseAnalysisResult returns the heuristic result: approved unless the
\* lower-cased text contains "rejected" or "not approved", issues empty.
C6_MalformedSpanFallsBackToHeuristic ==
    (pc = "parsed" /\ HasSpan(analysis) /\ ~JSONParse(SpanOf(analysis)).ok)
        => /\ Get(result, K_approved) = Bool(~SaysRejected(analysis))
           /\ Get(result, K_issues) = Arr(<<>>)

\* C7: for every non-empty completion text the run goes on to request the
\* review comment, and never ends by reporting an error thrown while the
\* result was rendered.
C7_MalformedOutputNeverAborts ==
    (pc = "done" /\ parseCalls = 1)
        => /\ Len(comments) = 1
           /\ \A k \in 1..Len(failed) :
                 failed[k] \notin {ActionFailed("TypeError"), ActionFailed("RangeError")}

\* C8 as stated: for every object and every prose before and after it,
\* braces in the prose included, parseAnalysisResult returns an object
\* equal to it property for property.
C8_RoundTripAnyProse ==
    (pc = "parsed" /\ obj # Undefined) => SameProperties(result, obj)

\* C8 as amended: the same, for prose that holds no { before the object
\* and no } after it.
C8_RoundTripBraceFreeSides ==
    (pc = "parsed" /\ obj # Undefined /\ ~HasChar(prefix, "{") /\ ~HasChar(suffix, "}"))
        => SameProperties(result, obj)

\* an object of several properties recovered from prose that holds a }
\* before it and a { after it
C8_Witness ==
    /\ pc = "parsed"
    /\ obj # Undefined
    /\ Len(obj.v) >= 2
    /\ HasChar(prefix, "}")
    /\ HasChar(suffix, "{")
    /\ ~HasChar(prefix, "{")
    /\ ~HasChar(suffix, "}")
    /\ result = obj

\* C9: for a text without a { ... } span parseAnalysisResult returns empty
\* issues, and approved = false exactly when the lower-cased text contains
\* "rejected" or "not approved".
C9_HeuristicVerdict ==
    (pc = "parsed" /\ ~HasSpan(analysis))
        => /\ Get(result, K_issues) = Arr(<<>>)
           /\ Get(result, K_approved) = Bool(~SaysRejected(analysis))

\* a text with a brace and no span that says REJECTED in capitals
C9_Witness ==
    /\ pc = "parsed"
    /\ ~HasSpan(analysis)
    /\ HasChar(analysis, "}")
    /\ SaysRejected(analysis)
    /\ ~Includes(analysis, W_rejected)
    /\ Get(result, K_approved) = Bool(FALSE)

\* C10: when EXCLUDE_PATTERNS is the empty string, getPRFiles returns the
\* listed files exactly, same contents and same order.
C10_EmptyPatternsExcludeNothing ==
    (excludeInput = <<>> /\ FilesListed) => files = listed

\* C11: for every pattern set and file list, the selector returns exactly
\* the files of the list, in order, that no pattern matches, a pattern
\* matching a name when it occurs unanchored in it with each star standing
\* for any run of characters and every other character, the dot included,
\* standing for itself.
C11_SelectorKeepsGlobUnmatched ==
    pc \in {"filtered", "refiltered"} => files = GlobKept(excludePatterns, listed)

\* C12: filtering is idempotent: the selector applied to the list it
\* returned, under the same patterns, returns that list again.
C12_FilterIdempotent ==
    pc = "refiltered" => refiltered = files
C12_Witness ==
    /\ pc = "refiltered"
    /\ files # <<>>
    /\ Len(files) < Len(listed)
    /\ refiltered = files

\* C13: in the extended variant the commit status and the run's failure
\* signal carry the same verdict: a status 'success' is created only if the
\* run does not signal failure, a status 'failure' only if it does; at most
\* one commit status is requested per run, and its state is 'success' for
\* an approved result and 'failure' otherwise.
C13_StatusMirrorsVerdict ==
    /\ Len(statuses) <= 1
    /\ \A k \in 1..Len(statuses) :
          /\ variant = "extended"
          /\ statuses[k].state \in {"success", "failure"}
          /\ statuses[k].state = "success" <=> Truthy(Get(result, K_approved))
          /\ statuses[k].created =>
                (statuses[k].state = "failure" <=> RunSignalsFailure)
C13_Witness ==
    /\ pc = "done"
    /\ Len(statuses) = 1
    /\ statuses[1].created
    /\ statuses[1].state = "failure"
    /\ RunSignalsFailure

\* C14: in the extended variant, for every integer score from 0 to 100 the
\* score bar of the comment has exactly floor(score / 10) filled cells
\* followed by 10 - floor(score / 10) empty cells, ten cells in all (score
\* 85: 8 filled, 2 empty), and rendering leaves the result as it was given.
C14_ScoreBarTenCells ==
    (pc # "postReviewComment" /\ obj.t = "obj"
        /\ Get(obj, K_score).t = "num" /\ Get(obj, K_score).v \in 0..100)
    => /\ Len(comments) = 1
       /\ result = obj
       /\ LET n == Get(obj, K_score).v
              bar == comments[1].body.scoreBar
          IN /\ Len(bar) = 10
             /\ \E f \in 0..10 :
                   /\ 10 * f <= n
                   /\ n < 10 * (f + 1)
                   /\ \A k \in 1..10 : bar[k] = IF k <= f THEN "filled" ELSE "empty"
C14_Witness ==
    /\ pc # "postReviewComment"
    /\ obj.t = "obj"
    /\ Get(obj, K_score) = Num(85)
    /\ Len(comments) = 1
    /\ comments[1].body.scoreBar =
          <<"filled", "filled", "filled", "filled", "filled", "filled", "filled", "filled",
            "empty", "empty">>

\* C15: a run outside a pull-request context (the event is not
\* pull_request, or the payload holds no pull request) reports one failure
\* message of its own, does not throw, and makes no external call: no file
\* listing, no completion request, no comment, no commit status.
C15_NoContextNoCalls ==
    ((eventName # "pull_request" \/ ~pullRequest.present) /\ pc # "start")
    => /\ pc = "done"
       /\ Len(failed) = 1
       /\ failed[1].msg \in {"This action only works on pull_request events",
                              "No pull request found in context"}
       /\ failed[1].msg # "Action failed"
       /\ listCalls = 0
       /\ calls = <<>>
       /\ comments = <<>>
       /\ statuses = <<>>
       /\ result = Undefined
C15_Witness ==
    /\ eventName = "pull_request"
    /\ ~pullRequest.present
    /\ pc = "done"
    /\ failed = <<SetFailed("No pull request found in context")>>

\* C16: when the file-listing request fails, the failure is propagated as
\* the run's failure and not retried: listFiles is requested exactly once,
\* no completion request is made, no comment is posted, and the run
\* signals failure with a single message.
C16_ListFailureEndsRun ==
    /\ listCalls <= 1
    /\ ListingFailed
        => /\ pc = "done"
           /\ listCalls = 1
           /\ calls = <<>>
           /\ comments = <<>>
           /\ statuses = <<>>
           /\ failed = <<ActionFailed("listFiles")>>
C16_Witness ==
    /\ pc = "done"
    /\ listCalls = 1
    /\ listed = <<>>
    /\ calls = <<>>
    /\ failed = <<ActionFailed("listFiles")>>

\* C17: the stages of a run occur in strict sequence and each at most
\* once: file listing, completion request(s), interpretation, comment
\* posting, outcome reporting.  Every step moves the run to a later
\* position and none returns to an earlier stage; the comment is posted at
\* most once, only after a result was constructed from a completion that
\* resolved, and before the approved / rejected outcome is reported.
C17_StagesInOrderOnce ==
    [][ /\ StageRank(pc') > StageRank(pc)
        /\ listCalls' # listCalls
            => /\ listCalls = 0 /\ listCalls' = 1
               /\ calls = <<>> /\ parseCalls = 0 /\ comments = <<>>
               /\ ~OutcomeReported(log, failed)
        /\ calls' # calls
            => /\ listCalls = 1 /\ Len(calls') = Len(calls) + 1 /\ Len(calls') <= 2
               /\ parseCalls = 0 /\ comments = <<>>
               /\ ~OutcomeReported(log, failed)
        /\ parseCalls' # parseCalls
            => /\ parseCalls = 0 /\ parseCalls' = 1
               /\ ResponseReceived /\ calls' = calls /\ comments = <<>>
               /\ ~OutcomeReported(log, failed)
        /\ comments' # comments
            => /\ comments = <<>> /\ Len(comments') = 1
               /\ ResultConstructed /\ parseCalls = 1 /\ parseCalls' = 1
               /\ ResponseReceived /\ calls' = calls
               /\ ~OutcomeReported(log, failed) /\ ~OutcomeReported(log', failed')
        /\ (OutcomeReported(log', failed') /\ ~OutcomeReported(log, failed))
            => /\ Len(comments) = 1 /\ comments[1].posted
               /\ comments' = comments /\ calls' = calls
               /\ parseCalls' = parseCalls /\ listCalls' = listCalls
      ]_vars
C17_Witness ==
    /\ pc = "done"
    /\ listCalls = 1
    /\ Len(calls) = 2
    /\ parseCalls = 1
    /\ Len(comments) = 1
    /\ comments[1].posted
    /\ OutcomeReported(log, failed)

====
